---- MODULE Spec2Model ----
(***************************************************************************)
(* A model of the chess-engine crate: the Board (position, move            *)
(* application, legal-move generation) and the Game (history of boards     *)
(* and moves plus the board state), with the square arithmetic of          *)
(* SquareSpec.                                                             *)
(***************************************************************************)
EXTENDS Integers, Sequences, FiniteSets, TLC

(***************************************************************************)
(* piece.rs                                                                *)
(***************************************************************************)
Color == {"White", "Black"}

PieceType == {"Pawn", "Rook", "Bishop", "Queen", "Knight", "King"}

Piece(piece, color) == [piece |-> piece, color |-> color]

\* Option<Piece>::None: an empty square of the grid.
NoPiece == [piece |-> "None", color |-> "None"]

opposite(color) == IF color = "White" THEN "Black" ELSE "White"

home_rank(color) == IF color = "White" THEN 0 ELSE 7

pawn_home_rank(color) == IF color = "White" THEN 1 ELSE 6

(***************************************************************************)
(* board/squarespec.rs                                                     *)
(***************************************************************************)
SquareSpec(rank, file) == [rank |-> rank, file |-> file]

SquareDiff(d_rank, d_file) == [d_rank |-> d_rank, d_file |-> d_file]

\* Option<SquareSpec>::None.
NoSquare == [rank |-> 8, file |-> 8]

\* SquareSpec::checked_add: each sum is converted to u32 (fails when it is
\* negative), then both are compared with 7.  This is the function for the
\* deltas of the move generator and of perform_move, whose sums are far from
\* the ends of i32; checked_add_i32 below is the function for every delta.
checked_add(sq, rhs) ==
    LET rank == sq.rank + rhs.d_rank
        file == sq.file + rhs.d_file
    IN  IF rank < 0 THEN NoSquare
        ELSE IF file < 0 THEN NoSquare
        ELSE IF rank > 7 \/ file > 7 THEN NoSquare
        ELSE SquareSpec(rank, file)

I32_MAX == 2147483647

I32_MIN == 0 - I32_MAX - 1

\* `a as i32 + b` for a coordinate a >= 0 and an i32 b.  When the sum passes
\* I32_MAX a build with overflow checks (the default of a debug build)
\* panics, and a build without them (the default of a release build) wraps
\* the sum around by 2^32.
i32_add(a, b, overflow_checks) ==
    IF b > I32_MAX - a
    THEN [panicked |-> overflow_checks, value |-> (a - I32_MAX - 1) + (b - I32_MAX - 1)]
    ELSE [panicked |-> FALSE, value |-> a + b]

\* The outcomes of a call with an Option<SquareSpec> result.
Panicked == [panicked |-> TRUE, value |-> NoSquare]

Returns(value) == [panicked |-> FALSE, value |-> value]

\* SquareSpec::checked_add in 32-bit arithmetic: the rank is added and
\* converted first, `?` returns None at once when it is negative; then the
\* file; then both are compared with 7.
checked_add_i32(sq, rhs, overflow_checks) ==
    IF i32_add(sq.rank, rhs.d_rank, overflow_checks).panicked THEN Panicked
    ELSE IF i32_add(sq.rank, rhs.d_rank, overflow_checks).value < 0 THEN Returns(NoSquare)
    ELSE IF i32_add(sq.file, rhs.d_file, overflow_checks).panicked THEN Panicked
    ELSE IF i32_add(sq.file, rhs.d_file, overflow_checks).value < 0 THEN Returns(NoSquare)
    ELSE IF \/ i32_add(sq.rank, rhs.d_rank, overflow_checks).value > 7
            \/ i32_add(sq.file, rhs.d_file, overflow_checks).value > 7
         THEN Returns(NoSquare)
    ELSE Returns(SquareSpec(i32_add(sq.rank, rhs.d_rank, overflow_checks).value,
                            i32_add(sq.file, rhs.d_file, overflow_checks).value))

\* impl Add<SquareDiff> for SquareSpec: unchecked. A negative sum cast to
\* u32 is a coordinate far above 7; it is kept here as the negative number,
\* which is likewise no coordinate of the board.
SquareAdd(sq, rhs) == SquareSpec(sq.rank + rhs.d_rank, sq.file + rhs.d_file)

\* impl Add<SquareDiff> for SquareDiff.
DiffAdd(a, b) == SquareDiff(a.d_rank + b.d_rank, a.d_file + b.d_file)

\* impl Sub for SquareSpec.
SquareSub(a, b) == SquareDiff(a.rank - b.rank, a.file - b.file)

IntAbs(x) == IF x < 0 THEN 0 - x ELSE x

\* SquareDiff::abs.
DiffAbs(d) == SquareDiff(IntAbs(d.d_rank), IntAbs(d.d_file))

(***************************************************************************)
(* board/move_types.rs                                                     *)
(***************************************************************************)
Normal(from, to) == [kind |-> "Normal", from |-> from, to |-> to]

Castling(c) == [kind |-> "Castling", side |-> c]

Promotion(from, to, target) ==
    [kind |-> "Promotion", from |-> from, to |-> to, target |-> target]

Short == "Short"

Long == "Long"

\* Move::from: the stored square, or the king's square of a castling move.
Move_from(m, color) ==
    IF m.kind \in {"Normal", "Promotion"} THEN m.from
    ELSE SquareSpec(home_rank(color), 4)

\* The destination file in Move::to.  The arms of `match c` are written
\* `Short => 6, Long => 2` where neither Short nor Long is in scope as a
\* variant of Castling: the first arm is a binding that matches every c, and
\* the second arm is never reached.
Move_to_kt(c) == 6

\* Move::to: the stored square, or the king's destination of a castling move.
Move_to(m, color) ==
    IF m.kind \in {"Normal", "Promotion"} THEN m.to
    ELSE SquareSpec(home_rank(color), Move_to_kt(m.side))

(***************************************************************************)
(* board/mod.rs: CastlingFlags, a set of the four one-bit flags            *)
(***************************************************************************)
WHITE_SHORT == "WHITE_SHORT"

WHITE_LONG == "WHITE_LONG"

BLACK_SHORT == "BLACK_SHORT"

BLACK_LONG == "BLACK_LONG"

FLAGS_WHITE == {WHITE_SHORT, WHITE_LONG}

FLAGS_BLACK == {BLACK_SHORT, BLACK_LONG}

FLAGS_SHORT == {WHITE_SHORT, BLACK_SHORT}

FLAGS_LONG == {WHITE_LONG, BLACK_LONG}

FLAGS_DEFAULT == {WHITE_SHORT, WHITE_LONG, BLACK_SHORT, BLACK_LONG}

ColorFlags(color) == IF color = "White" THEN FLAGS_WHITE ELSE FLAGS_BLACK

(***************************************************************************)
(* board/mod.rs: Board                                                     *)
(***************************************************************************)
Ranks == 0 .. 7

Files == 0 .. 7

Squares == {SquareSpec(r, f) : r \in Ranks, f \in Files}

\* impl Index<SquareSpec> for Board.
Index(b, s) == b.board[s.rank][s.file]

\* impl IndexMut<SquareSpec> for Board: the board with one square assigned.
IndexMut(b, s, p) == [b EXCEPT !.board[s.rank][s.file] = p]

BackRow == <<"Rook", "Knight", "Bishop", "Queen", "King", "Bishop", "Knight", "Rook">>

\* Board::default_board.
default_board ==
    [board |-> [r \in Ranks |->
                  [f \in Files |->
                     CASE r = 0 -> Piece(BackRow[f + 1], "White")
                       [] r = 1 -> Piece("Pawn", "White")
                       [] r = 6 -> Piece("Pawn", "Black")
                       [] r = 7 -> Piece(BackRow[f + 1], "Black")
                       [] OTHER -> NoPiece]],
     turn |-> "White",
     castling |-> FLAGS_DEFAULT,
     en_passant |-> NoSquare,
     halfmove |-> 0,
     fullmove |-> 1]

\* Board::can_castle: only whether the right is still set.
can_castle(b, castle, color) ==
    (b.castling \cap ColorFlags(color)
       \cap (IF castle = Long THEN FLAGS_LONG ELSE FLAGS_SHORT)) # {}

\* Board::king: the square of the first king of that colour, scanning ranks
\* and files upwards; NoSquare if there is none.
king(b, color) ==
    LET ks == {s \in Squares : Index(b, s) = Piece("King", color)}
    IN  IF ks = {} THEN NoSquare
        ELSE CHOOSE s \in ks :
               \A t \in ks : s.rank < t.rank \/ (s.rank = t.rank /\ s.file <= t.file)

\* Board::unchecked_perform_move: relocates without any legality check; only
\* the turn flips and, for a castling move, the mover's rights are cleared.
unchecked_perform_move(b, m) ==
    LET moved ==
          CASE m.kind = "Normal" ->
                 IndexMut(IndexMut(b, m.to, Index(b, m.from)), m.from, NoPiece)
            [] m.kind = "Castling" ->
                 LET rank == home_rank(b.turn)
                     rf == IF m.side = Long THEN 0 ELSE 7
                     kt == IF m.side = Long THEN 2 ELSE 6
                     rt == IF m.side = Long THEN 3 ELSE 5
                     king_from == SquareSpec(rank, 4)
                     rook_from == SquareSpec(rank, rf)
                     king_to == SquareSpec(rank, kt)
                     rook_to == SquareSpec(rank, rt)
                     b1 == IndexMut(b, king_to, Index(b, king_from))
                     b2 == IndexMut(b1, king_from, NoPiece)
                     b3 == IndexMut(b2, rook_to, Index(b, rook_from))
                 IN  IndexMut(b3, rook_from, NoPiece)
            [] m.kind = "Promotion" ->
                 LET b1 == IndexMut(IndexMut(b, m.to, Index(b, m.from)), m.from, NoPiece)
                 IN  IF Index(b1, m.to) # NoPiece
                     THEN IndexMut(b1, m.to, Piece(m.target, Index(b1, m.to).color))
                     ELSE b1
        flags == IF m.kind = "Castling"
                 THEN moved.castling \ ColorFlags(b.turn)
                 ELSE moved.castling
    IN  [moved EXCEPT !.castling = flags, !.turn = opposite(b.turn)]

(***************************************************************************)
(* board/legal_moves.rs                                                    *)
(***************************************************************************)
DIAGONALS == {SquareDiff(1, 1), SquareDiff(1, -1), SquareDiff(-1, 1), SquareDiff(-1, -1)}

AXES == {SquareDiff(0, 1), SquareDiff(1, 0), SquareDiff(0, -1), SquareDiff(-1, 0)}

KNIGHT_JUMPS ==
    {SquareDiff(2, 1), SquareDiff(2, -1), SquareDiff(-2, 1), SquareDiff(-2, -1),
     SquareDiff(1, 2), SquareDiff(1, -2), SquareDiff(-1, 2), SquareDiff(-1, -2)}

\* The loop of get_moves_directions going on behind a piece of the other
\* colour.
RECURSIVE Slide_through_captures(_, _, _, _)
Slide_through_captures(piece_col, b, sq_i, direction) ==
    LET sq == checked_add(sq_i, direction)
    IN  IF sq = NoSquare THEN {}
        ELSE IF Index(b, sq) = NoPiece \/ Index(b, sq).color # piece_col
             THEN {sq} \cup Slide_through_captures(piece_col, b, sq, direction)
        ELSE {}

\* The while loop of get_moves_directions for one direction, from sq_i on:
\* stop before a piece of the same colour, stop on a piece of the other
\* colour, go on over an empty square.
RECURSIVE Slide(_, _, _, _)
Slide(piece_col, b, sq_i, direction) ==
    LET sq == checked_add(sq_i, direction)
    IN  IF sq = NoSquare THEN {}
        ELSE IF Index(b, sq) = NoPiece
             THEN {sq} \cup Slide(piece_col, b, sq, direction)
        ELSE IF Index(b, sq).color = piece_col THEN {}
        ELSE {sq}

\* get_moves_directions: the destinations of a sliding piece.
get_moves_directions(piece_col, b, orig_sq, directions) ==
    UNION {Slide(piece_col, b, orig_sq, d) : d \in directions}

\* get_moves_knight.
get_moves_knight(k_col, b, orig_sq) ==
    {sq \in {checked_add(orig_sq, sd) : sd \in KNIGHT_JUMPS} \ {NoSquare} :
       Index(b, sq).color # k_col}

PawnMove(tag, to) == [tag |-> tag, to |-> to]

\* get_moves_pawn without the test that the pawn stands on its home rank.
get_moves_pawn_from_any_rank(p_col, b, orig_sq) ==
    LET pawn_direction == SquareDiff(IF p_col = "White" THEN 1 ELSE -1, 0)
        sq == checked_add(orig_sq, pawn_direction)
        sq2 == checked_add(sq, pawn_direction)
        forward ==
          IF sq # NoSquare /\ Index(b, sq) = NoPiece
          THEN IF sq.rank = home_rank(opposite(p_col))
               THEN {PawnMove("Promotion", sq)}
               ELSE {PawnMove("Normal", sq)}
                    \cup (IF sq2 # NoSquare /\ Index(b, sq2) = NoPiece
                          THEN {PawnMove("Normal", sq2)}
                          ELSE {})
          ELSE {}
        left_diag == checked_add(orig_sq, DiffAdd(pawn_direction, SquareDiff(0, -1)))
        right_diag == checked_add(orig_sq, DiffAdd(pawn_direction, SquareDiff(0, 1)))
        diags == {left_diag, right_diag} \ {NoSquare}
        en_passants ==
          IF b.en_passant # NoSquare
          THEN {PawnMove("EnPassant", d) : d \in {x \in diags : x = b.en_passant}}
          ELSE {}
        takes ==
          {PawnMove("Normal", d) :
             d \in {x \in diags : Index(b, x) # NoPiece /\ Index(b, x).color # p_col}}
    IN  forward \cup en_passants \cup takes

\* get_moves_pawn: the PawnMove values of a pawn of colour p_col on orig_sq.
get_moves_pawn(p_col, b, orig_sq) ==
    LET pawn_direction == SquareDiff(IF p_col = "White" THEN 1 ELSE -1, 0)
        sq == checked_add(orig_sq, pawn_direction)
        sq2 == checked_add(sq, pawn_direction)
        forward ==
          IF sq # NoSquare /\ Index(b, sq) = NoPiece
          THEN IF sq.rank = home_rank(opposite(p_col))
               THEN {PawnMove("Promotion", sq)}
               ELSE {PawnMove("Normal", sq)}
                    \cup (IF orig_sq.rank = pawn_home_rank(p_col)
                             /\ sq2 # NoSquare /\ Index(b, sq2) = NoPiece
                          THEN {PawnMove("Normal", sq2)}
                          ELSE {})
          ELSE {}
        left_diag == checked_add(orig_sq, DiffAdd(pawn_direction, SquareDiff(0, -1)))
        right_diag == checked_add(orig_sq, DiffAdd(pawn_direction, SquareDiff(0, 1)))
        diags == {left_diag, right_diag} \ {NoSquare}
        en_passants ==
          IF b.en_passant # NoSquare
          THEN {PawnMove("EnPassant", d) : d \in {x \in diags : x = b.en_passant}}
          ELSE {}
        takes ==
          {PawnMove("Normal", d) :
             d \in {x \in diags : Index(b, x) # NoPiece /\ Index(b, x).color # p_col}}
    IN  forward \cup en_passants \cup takes

\* The promotion targets with the king among them.
PROMOTION_TARGETS_with_king == {"Queen", "Knight", "Bishop", "Rook", "King"}

PROMOTION_TARGETS == {"Queen", "Knight", "Bishop", "Rook"}

RECURSIVE enumerate_legal_moves(_, _, _, _)

\* Board::is_threatened: some piece of the other colour has, with the check
\* filter off, a Normal move onto sq.
is_threatened(b, color, sq) ==
    \E s \in Squares :
       /\ Index(b, s) # NoPiece
       /\ Index(b, s).color = opposite(color)
       /\ \E m \in enumerate_legal_moves(Index(b, s), s, b, FALSE) :
             m.kind = "Normal" /\ m.to = sq

\* get_moves_king: the one-step moves and, when check_castling, the castling
\* moves.
get_moves_king(k_col, b, orig_sq, check_castling) ==
    LET steps ==
          {Normal(orig_sq, sq) :
             sq \in {x \in {checked_add(orig_sq, d) : d \in AXES \cup DIAGONALS} \ {NoSquare} :
                       Index(b, x).color # k_col}}
        rank == home_rank(k_col)
        long ==
          IF /\ can_castle(b, Long, k_col)
             /\ Index(b, SquareSpec(rank, 1)) = NoPiece
             /\ Index(b, SquareSpec(rank, 2)) = NoPiece
             /\ Index(b, SquareSpec(rank, 3)) = NoPiece
             /\ ~is_threatened(b, k_col, SquareAdd(orig_sq, SquareDiff(0, -1)))
          THEN {Castling(Long)}
          ELSE {}
        short ==
          IF /\ can_castle(b, Short, k_col)
             /\ Index(b, SquareSpec(rank, 5)) = NoPiece
             /\ Index(b, SquareSpec(rank, 6)) = NoPiece
             /\ ~is_threatened(b, k_col, SquareAdd(orig_sq, SquareDiff(0, 1)))
          THEN {Castling(Short)}
          ELSE {}
    IN  IF check_castling
        THEN IF is_threatened(b, k_col, orig_sq) THEN steps
             ELSE steps \cup long \cup short
        ELSE steps

\* The match on piece.piece of enumerate_legal_moves: the moves of the piece
\* before the check filter.
PieceMoves(piece, location, b, account_for_check) ==
    CASE piece.piece = "Pawn" ->
           LET pm == get_moves_pawn(piece.color, b, location)
           IN  {Normal(location, x.to) : x \in {y \in pm : y.tag # "Promotion"}}
               \cup {Promotion(location, x.to, t) :
                       x \in {y \in pm : y.tag = "Promotion"}, t \in PROMOTION_TARGETS}
      [] piece.piece = "King" ->
           get_moves_king(piece.color, b, location, account_for_check)
      [] piece.piece = "Knight" ->
           {Normal(location, to) : to \in get_moves_knight(piece.color, b, location)}
      [] piece.piece = "Rook" ->
           {Normal(location, to) : to \in get_moves_directions(piece.color, b, location, AXES)}
      [] piece.piece = "Bishop" ->
           {Normal(location, to) :
              to \in get_moves_directions(piece.color, b, location, DIAGONALS)}
      [] piece.piece = "Queen" ->
           {Normal(location, to) :
              to \in get_moves_directions(piece.color, b, location, AXES \cup DIAGONALS)}

\* The closure given to moves.retain: the move is kept when, on the board
\* after it, no piece whose colour differs from the moved piece's has a
\* Normal move (check filter off) onto the king of the side to move; it is
\* kept too when that side has no king there.
RetainMove(piece, b, m) ==
    LET new_board == unchecked_perform_move(b, m)
        k == king(new_board, b.turn)
    IN  IF k = NoSquare THEN TRUE
        ELSE ~ \E s \in Squares :
                  /\ Index(new_board, s) # NoPiece
                  /\ Index(new_board, s).color # piece.color
                  /\ \E m_other \in enumerate_legal_moves(Index(new_board, s), s, new_board, FALSE) :
                        m_other.kind = "Normal" /\ m_other.to = k

\* enumerate_legal_moves.
enumerate_legal_moves(piece, location, b, account_for_check) ==
    LET moves == PieceMoves(piece, location, b, account_for_check)
    IN  IF account_for_check
        THEN {m \in moves : RetainMove(piece, b, m)}
        ELSE moves

(***************************************************************************)
(* The calls of enumerate_legal_moves within enumerate_legal_moves: the    *)
(* operators below follow the same code as the generator and give, instead *)
(* of the moves, the deepest level of nesting that a call on level `depth` *)
(* reaches.  A call deeper than MaxNesting is not followed further.        *)
(***************************************************************************)
MaxNesting == 3

SetMax(S) == CHOOSE x \in S : \A y \in S : y <= x

RECURSIVE enumerate_legal_moves_nesting(_, _, _, _, _)

\* is_threatened with the check filter on in its calls of the generator.
is_threatened_filtered_nesting(b, color, depth) ==
    SetMax({depth} \cup
           {enumerate_legal_moves_nesting(Index(b, s), s, b, TRUE, depth + 1) :
              s \in {x \in Squares : Index(b, x).color = opposite(color)}})

\* Board::is_threatened: one call of the generator, check filter off, for
\* every piece of the other colour (the loop may return before the last).
is_threatened_nesting(b, color, depth) ==
    SetMax({depth} \cup
           {enumerate_legal_moves_nesting(Index(b, s), s, b, FALSE, depth + 1) :
              s \in {x \in Squares : Index(b, x).color = opposite(color)}})

\* get_moves_king: is_threatened is called only under check_castling.
get_moves_king_nesting(k_col, b, check_castling, depth) ==
    IF check_castling THEN is_threatened_nesting(b, k_col, depth) ELSE depth

\* The closure given to moves.retain: one call of the generator, check
\* filter off, for every piece of another colour on the board after m.
RetainMove_nesting(piece, b, m, depth) ==
    LET new_board == unchecked_perform_move(b, m)
    IN  IF king(new_board, b.turn) = NoSquare THEN depth
        ELSE SetMax({depth} \cup
                    {enumerate_legal_moves_nesting(Index(new_board, s), s, new_board,
                                                   FALSE, depth + 1) :
                       s \in {x \in Squares : /\ Index(new_board, x) # NoPiece
                                              /\ Index(new_board, x).color # piece.color}})

\* enumerate_legal_moves.
enumerate_legal_moves_nesting(piece, location, b, account_for_check, depth) ==
    IF depth > MaxNesting THEN depth
    ELSE SetMax({depth}
                \cup (IF piece.piece = "King"
                      THEN {get_moves_king_nesting(piece.color, b, account_for_check, depth)}
                      ELSE {})
                \cup (IF account_for_check
                      THEN {RetainMove_nesting(piece, b, m, depth) :
                              m \in PieceMoves(piece, location, b, account_for_check)}
                      ELSE {}))

\* get_legal_moves without the test of the piece's colour against the turn.
get_legal_moves_of_any_color(b, piece_location) ==
    LET piece == Index(b, piece_location)
    IN  IF piece # NoPiece
        THEN enumerate_legal_moves(piece, piece_location, b, TRUE)
        ELSE {}

\* Board::get_legal_moves.
get_legal_moves(b, piece_location) ==
    LET piece == Index(b, piece_location)
    IN  IF piece # NoPiece
        THEN IF piece.color # b.turn THEN {}
             ELSE enumerate_legal_moves(piece, piece_location, b, TRUE)
        ELSE {}

\* Board::get_all_legal_moves.
get_all_legal_moves(b) ==
    UNION {get_legal_moves(b, sq) :
             sq \in {s \in Squares : Index(b, s) # NoPiece /\ Index(b, s).color = b.turn}}

\* in_check looking for the king of the side that has just moved.
in_check_of_mover(b) ==
    LET k == king(b, opposite(b.turn))
    IN  IF k = NoSquare THEN FALSE ELSE is_threatened(b, opposite(b.turn), k)

\* Board::in_check.
in_check(b) ==
    LET k == king(b, b.turn)
    IN  IF k = NoSquare THEN FALSE ELSE is_threatened(b, b.turn, k)

\* Board::is_legal.
is_legal(b, m, side) ==
    IF m.kind = "Castling" THEN can_castle(b, m.side, side)
    ELSE LET piece == Index(b, m.from)
         IN  IF piece = NoPiece THEN FALSE
             ELSE m \in enumerate_legal_moves(piece, m.from, b, TRUE)

\* Option<Board>.
NoBoard == [some |-> FALSE]

SomeBoard(b) == [some |-> TRUE, board |-> b]

\* rook_taken_castling, local to perform_move: only the file is looked at.
rook_taken_castling(flags, file, color) ==
    IF file = 0
    THEN flags \ {IF color = "White" THEN WHITE_LONG ELSE BLACK_LONG}
    ELSE IF file = 7
    THEN flags \ {IF color = "White" THEN WHITE_SHORT ELSE BLACK_SHORT}
    ELSE flags

\* The Move::Normal arm of perform_move: the grid, the castling flags, the
\* new en passant square and whether the halfmove clock is reset.
PerformNormal(b, m) ==
    LET piece == Index(b, m.from)
        taken == Index(b, m.to)
        dir == SquareDiff(IF piece.color = "White" THEN 1 ELSE -1, 0)
        flags_moved ==
          CASE piece.piece = "Rook" -> rook_taken_castling(b.castling, m.from.file, piece.color)
            [] piece.piece = "King" -> b.castling \ ColorFlags(piece.color)
            [] OTHER -> b.castling
        flags ==
          IF taken.piece = "Rook"
          THEN rook_taken_castling(flags_moved, m.to.file, taken.color)
          ELSE flags_moved
        takes_en_passant ==
          piece.piece = "Pawn" /\ b.en_passant # NoSquare /\ b.en_passant = m.to
        new_en_passant ==
          IF /\ piece.piece = "Pawn"
             /\ b.en_passant = NoSquare
             /\ DiffAbs(SquareSub(m.to, m.from)).d_rank = 2
          THEN SquareAdd(m.from, dir)
          ELSE NoSquare
        b0 == IF takes_en_passant THEN IndexMut(b, SquareAdd(m.to, dir), NoPiece) ELSE b
        b1 == IndexMut(IndexMut(b0, m.to, piece), m.from, NoPiece)
    IN  [board |-> [b1 EXCEPT !.castling = flags],
         new_en_passant |-> new_en_passant,
         reset_halfmove |-> (piece.piece = "Pawn" \/ taken # NoPiece)]

\* The Move::Castling arm of perform_move.
PerformCastling(b, m) ==
    LET color == b.turn
        rank == home_rank(color)
        king_from == SquareSpec(rank, 4)
        rf == IF m.side = Short THEN 7 ELSE 0
        kt == IF m.side = Short THEN 6 ELSE 2
        rt == IF m.side = Short THEN 5 ELSE 3
        rook_from == SquareSpec(rank, rf)
        king_to == SquareSpec(rank, kt)
        rook_to == SquareSpec(rank, rt)
        b1 == IndexMut(b, king_to, Index(b, king_from))
        b2 == IndexMut(b1, king_from, NoPiece)
        b3 == IndexMut(b2, rook_to, Index(b, rook_from))
        b4 == IndexMut(b3, rook_from, NoPiece)
    IN  [board |-> [b4 EXCEPT !.castling = b.castling \ ColorFlags(color)],
         new_en_passant |-> NoSquare,
         reset_halfmove |-> FALSE]

\* The Move::Promotion arm of perform_move.
PerformPromotion(b, m) ==
    LET taken == Index(b, m.to)
        flags ==
          IF taken.piece = "Rook"
          THEN rook_taken_castling(b.castling, m.to.file, taken.color)
          ELSE b.castling
        b1 == IndexMut(b, m.to, Piece(m.target, Index(b, m.from).color))
        b2 == IndexMut(b1, m.from, NoPiece)
    IN  [board |-> [b2 EXCEPT !.castling = flags],
         new_en_passant |-> NoSquare,
         reset_halfmove |-> TRUE]

\* The condition of the debug_assert! in the en passant branch of
\* perform_move, for a pawn move m on the board b: the square one step beyond
\* the destination holds a pawn of the moving pawn's colour.
en_passant_assertion(b, m) ==
    Index(b, SquareAdd(m.to, SquareDiff(IF Index(b, m.from).color = "White" THEN 1 ELSE -1, 0)))
       = Piece("Pawn", Index(b, m.from).color)

\* perform_move in a build with debug assertions panics: the move is legal,
\* a pawn goes to the en passant square and the assertion is false.
perform_move_panics(b, m) ==
    /\ is_legal(b, m, b.turn)
    /\ m.kind = "Normal"
    /\ Index(b, m.from).piece = "Pawn"
    /\ b.en_passant # NoSquare
    /\ b.en_passant = m.to
    /\ ~en_passant_assertion(b, m)

\* perform_move adding one to the halfmove clock after every move.
perform_move_never_resetting(b, m) ==
    IF ~is_legal(b, m, b.turn) THEN NoBoard
    ELSE LET arm == CASE m.kind = "Normal" -> PerformNormal(b, m)
                      [] m.kind = "Castling" -> PerformCastling(b, m)
                      [] m.kind = "Promotion" -> PerformPromotion(b, m)
         IN  SomeBoard([arm.board EXCEPT
                          !.en_passant = arm.new_en_passant,
                          !.turn = opposite(b.turn),
                          !.fullmove = IF b.turn = "Black" THEN @ + 1 ELSE @,
                          !.halfmove = @ + 1])

\* perform_move adding one to the fullmove number after White's moves.
perform_move_counting_white(b, m) ==
    IF ~is_legal(b, m, b.turn) THEN NoBoard
    ELSE LET arm == CASE m.kind = "Normal" -> PerformNormal(b, m)
                      [] m.kind = "Castling" -> PerformCastling(b, m)
                      [] m.kind = "Promotion" -> PerformPromotion(b, m)
         IN  SomeBoard([arm.board EXCEPT
                          !.en_passant = arm.new_en_passant,
                          !.turn = opposite(b.turn),
                          !.fullmove = IF b.turn = "White" THEN @ + 1 ELSE @,
                          !.halfmove = IF arm.reset_halfmove THEN 0 ELSE @ + 1])

\* Board::perform_move: NoBoard if is_legal fails for the side to move, else
\* the next board.
perform_move(b, m) ==
    IF ~is_legal(b, m, b.turn) THEN NoBoard
    ELSE LET arm == CASE m.kind = "Normal" -> PerformNormal(b, m)
                      [] m.kind = "Castling" -> PerformCastling(b, m)
                      [] m.kind = "Promotion" -> PerformPromotion(b, m)
         IN  SomeBoard([arm.board EXCEPT
                          !.en_passant = arm.new_en_passant,
                          !.turn = opposite(b.turn),
                          !.fullmove = IF b.turn = "Black" THEN @ + 1 ELSE @,
                          !.halfmove = IF arm.reset_halfmove THEN 0 ELSE @ + 1])

(***************************************************************************)
(* Text: a string is a sequence of one-character strings.                  *)
(***************************************************************************)
DIGITS == <<"0", "1", "2", "3", "4", "5", "6", "7", "8", "9">>

FILE_LETTERS == <<"a", "b", "c", "d", "e", "f", "g", "h">>

RANK_DIGITS == <<"1", "2", "3", "4", "5", "6", "7", "8">>

WHITE_LETTERS == <<"P", "N", "B", "R", "Q", "K">>

BLACK_LETTERS == <<"p", "n", "b", "r", "q", "k">>

LETTER_PIECES == <<"Pawn", "Knight", "Bishop", "Rook", "Queen", "King">>

\* str::contains(char).
contains(t, c) == \E i \in 1 .. Len(t) : t[i] = c

\* The place of c in t; only used where t contains c.
find(t, c) == CHOOSE i \in 1 .. Len(t) : t[i] = c /\ \A j \in 1 .. (i - 1) : t[j] # c

\* Result<T, Error>.
Err == [ok |-> FALSE]

Ok(v) == [ok |-> TRUE, value |-> v]

\* Display for u32: the decimal digits.
RECURSIVE fmt_u32(_)
fmt_u32(n) ==
    IF n < 10 THEN <<DIGITS[n + 1]>>
    ELSE fmt_u32(n \div 10) \o <<DIGITS[(n % 10) + 1]>>

\* The value of a sequence of decimal digits.
RECURSIVE digits_value(_)
digits_value(t) ==
    IF t = <<>> THEN 0
    ELSE 10 * digits_value(SubSeq(t, 1, Len(t) - 1)) + (find(DIGITS, t[Len(t)]) - 1)

\* str::parse::<u32>: an error on the empty string and on any other
\* character than a digit.
parse_u32(t) ==
    IF t = <<>> \/ \E i \in 1 .. Len(t) : ~contains(DIGITS, t[i]) THEN Err
    ELSE Ok(digits_value(t))

\* str::split(char): the pieces between the separators, empty ones included.
RECURSIVE split(_, _)
split(t, sep) ==
    IF ~contains(t, sep) THEN <<t>>
    ELSE <<SubSeq(t, 1, find(t, sep) - 1)>>
         \o split(SubSeq(t, find(t, sep) + 1, Len(t)), sep)

\* Display for PieceType.
fmt_PieceType(piece) == <<WHITE_LETTERS[find(LETTER_PIECES, piece)]>>

\* str::to_lowercase on the letter of a piece.
to_lowercase(t) == [i \in 1 .. Len(t) |-> BLACK_LETTERS[find(WHITE_LETTERS, t[i])]]

\* Display for Piece.
fmt_Piece(p) ==
    IF p.color = "Black" THEN to_lowercase(fmt_PieceType(p.piece))
    ELSE fmt_PieceType(p.piece)

\* Display for SquareSpec.
fmt_SquareSpec(sq) ==
    << IF sq.file \in 0 .. 7 THEN FILE_LETTERS[sq.file + 1] ELSE "?",
       IF sq.rank \in 0 .. 7 THEN RANK_DIGITS[sq.rank + 1] ELSE "?" >>

\* FromStr for SquareSpec.
from_str_SquareSpec(t) ==
    IF Len(t) < 1 \/ ~contains(FILE_LETTERS, t[1]) THEN Err
    ELSE IF Len(t) < 2 \/ ~contains(RANK_DIGITS, t[2]) THEN Err
    ELSE IF Len(t) > 2 THEN Err
    ELSE Ok(SquareSpec(find(RANK_DIGITS, t[2]) - 1, find(FILE_LETTERS, t[1]) - 1))

\* Display for CastlingFlags: the fourth test is again on BLACK_SHORT.
fmt_CastlingFlags(flags) ==
    (IF WHITE_SHORT \in flags THEN <<"K">> ELSE <<>>)
    \o (IF WHITE_LONG \in flags THEN <<"Q">> ELSE <<>>)
    \o (IF BLACK_SHORT \in flags THEN <<"k">> ELSE <<>>)
    \o (IF BLACK_SHORT \in flags THEN <<"q">> ELSE <<>>)

\* Display for Board, one rank: the pieces from file a on, with each run of
\* empty squares written as its length.
RECURSIVE fmt_rank(_, _, _)
fmt_rank(rank, file, empty_squares) ==
    IF file > 7
    THEN IF empty_squares # 0 THEN fmt_u32(empty_squares) ELSE <<>>
    ELSE IF rank[file] # NoPiece
    THEN (IF empty_squares # 0 THEN fmt_u32(empty_squares) ELSE <<>>)
         \o fmt_Piece(rank[file]) \o fmt_rank(rank, file + 1, 0)
    ELSE fmt_rank(rank, file + 1, empty_squares + 1)

\* Display for Board, the grid: the ranks from the eighth down, a slash
\* after each of them.
RECURSIVE fmt_ranks(_, _)
fmt_ranks(b, r) ==
    fmt_rank(b.board[r], 0, 0) \o <<"/">>
    \o (IF r = 0 THEN <<>> ELSE fmt_ranks(b, r - 1))

\* Display for Board: the last slash is popped, then the six fields are
\* written with one space between them.
fmt_Board(b) ==
    SubSeq(fmt_ranks(b, 7), 1, Len(fmt_ranks(b, 7)) - 1)
    \o <<" ">> \o <<IF b.turn = "White" THEN "w" ELSE "b">>
    \o <<" ">> \o fmt_CastlingFlags(b.castling)
    \o <<" ">> \o (IF b.en_passant # NoSquare THEN fmt_SquareSpec(b.en_passant) ELSE <<"-">>)
    \o <<" ">> \o fmt_u32(b.halfmove)
    \o <<" ">> \o fmt_u32(b.fullmove)

(***************************************************************************)
(* board/fen_parser.rs                                                     *)
(***************************************************************************)
\* parse_piece: the squares one character stands for, a piece or a run of
\* empty squares.
parse_piece(c) ==
    IF contains(DIGITS, c) THEN Ok([i \in 1 .. (find(DIGITS, c) - 1) |-> NoPiece])
    ELSE IF contains(WHITE_LETTERS, c)
    THEN Ok(<<Piece(LETTER_PIECES[find(WHITE_LETTERS, c)], "White")>>)
    ELSE IF contains(BLACK_LETTERS, c)
    THEN Ok(<<Piece(LETTER_PIECES[find(BLACK_LETTERS, c)], "Black")>>)
    ELSE Err

\* parse_boardstate, one row: cur_line after the characters of the row.
RECURSIVE parse_row(_)
parse_row(row) ==
    IF row = <<>> THEN Ok(<<>>)
    ELSE IF ~parse_piece(row[Len(row)]).ok THEN Err
    ELSE IF ~parse_row(SubSeq(row, 1, Len(row) - 1)).ok THEN Err
    ELSE Ok(parse_row(SubSeq(row, 1, Len(row) - 1)).value
            \o parse_piece(row[Len(row)]).value)

\* parse_boardstate: every row must give eight squares and there must be
\* eight rows; the rows are reversed, so that the last is rank 0.
parse_boardstate(t) ==
    IF \E i \in 1 .. Len(split(t, "/")) :
          \/ ~parse_row(split(t, "/")[i]).ok
          \/ Len(parse_row(split(t, "/")[i]).value) # 8
    THEN Err
    ELSE IF Len(split(t, "/")) # 8 THEN Err
    ELSE Ok([r \in Ranks |-> [f \in Files |-> parse_row(split(t, "/")[8 - r]).value[f + 1]]])

\* parse, after the split at the spaces: parts.next() fails when the parts
\* are used up; parts after the sixth are not looked at.
parse_parts(parts) ==
    IF ~parse_boardstate(parts[1]).ok THEN Err
    ELSE IF Len(parts) < 2 \/ parts[2] \notin {<<"w">>, <<"b">>} THEN Err
    ELSE IF Len(parts) < 3 THEN Err
    ELSE IF Len(parts) < 4 THEN Err
    ELSE IF parts[4] # <<"-">> /\ ~from_str_SquareSpec(parts[4]).ok THEN Err
    ELSE IF Len(parts) < 5 \/ ~parse_u32(parts[5]).ok THEN Err
    ELSE IF Len(parts) < 6 \/ ~parse_u32(parts[6]).ok THEN Err
    ELSE Ok([board |-> parse_boardstate(parts[1]).value,
             turn |-> IF parts[2] = <<"w">> THEN "White" ELSE "Black",
             castling |->
               (IF contains(parts[3], "K") THEN {WHITE_SHORT} ELSE {})
               \cup (IF contains(parts[3], "k") THEN {BLACK_SHORT} ELSE {})
               \cup (IF contains(parts[3], "Q") THEN {WHITE_LONG} ELSE {})
               \cup (IF contains(parts[3], "q") THEN {BLACK_LONG} ELSE {}),
             en_passant |->
               IF parts[4] = <<"-">> THEN NoSquare
               ELSE from_str_SquareSpec(parts[4]).value,
             halfmove |-> parse_u32(parts[5]).value,
             fullmove |-> parse_u32(parts[6]).value])

\* fen_parser::parse.
parse(t) == parse_parts(split(t, " "))

\* Board::load_fen.
load_fen(t) == parse(t)

(***************************************************************************)
(* game.rs: Game                                                           *)
(***************************************************************************)
BoardState == {"Normal", "Check", "Checkmate", "Draw", "Stalemate"}

\* The halfmove count that update_boardstate tests for a draw.
DRAW_HALFMOVE == 50

\* Game::new.
new ==
    [boards |-> <<default_board>>, moves |-> <<>>, board_state |-> "Normal"]

\* Game::current_board.
current_board(g) == g.boards[Len(g.boards)]

\* The chain of tests of update_boardstate on the current board: the old
\* state is kept when none of them succeeds.
next_board_state(old, no_legal_moves, check, halfmove) ==
    IF no_legal_moves /\ check THEN "Checkmate"
    ELSE IF no_legal_moves THEN "Stalemate"
    ELSE IF check THEN "Check"
    ELSE IF halfmove = DRAW_HALFMOVE THEN "Draw"
    ELSE old

\* Game::update_boardstate.
update_boardstate(g) ==
    [g EXCEPT !.board_state =
        next_board_state(@, get_all_legal_moves(current_board(g)) = {},
                         in_check(current_board(g)), current_board(g).halfmove)]

\* What make_move returns once the board state is updated: the game and a
\* reference to its current board.
ReturnCurrent(updated) ==
    [game |-> updated, value |-> SomeBoard(current_board(updated))]

\* make_move recording the move before perform_move has accepted it.
RecordThenPush(g, next_move, next_board) ==
    IF ~next_board.some
    THEN [game |-> [g EXCEPT !.moves = Append(@, next_move)], value |-> NoBoard]
    ELSE ReturnCurrent(update_boardstate(
             [g EXCEPT !.boards = Append(@, next_board.board),
                       !.moves = Append(@, next_move)]))

make_move_records_first(g, next_move) ==
    IF g.board_state \in {"Draw", "Stalemate", "Checkmate"}
    THEN [game |-> g, value |-> NoBoard]
    ELSE RecordThenPush(g, next_move, perform_move(g.boards[Len(g.boards)], next_move))

\* make_move pushing the board and forgetting to push the move.
PushBoardOnly(g, next_move, next_board) ==
    IF ~next_board.some
    THEN [game |-> g, value |-> NoBoard]
    ELSE ReturnCurrent(update_boardstate(
             [g EXCEPT !.boards = Append(@, next_board.board)]))

make_move_forgets_move(g, next_move) ==
    IF g.board_state \in {"Draw", "Stalemate", "Checkmate"}
    THEN [game |-> g, value |-> NoBoard]
    ELSE PushBoardOnly(g, next_move, perform_move(g.boards[Len(g.boards)], next_move))

\* The tail of make_move, with the result of perform_move: None leaves the
\* game alone; a board is pushed with its move and the state is updated.
PushNext(g, next_move, next_board) ==
    IF ~next_board.some
    THEN [game |-> g, value |-> NoBoard]
    ELSE ReturnCurrent(update_boardstate(
             [g EXCEPT !.boards = Append(@, next_board.board),
                       !.moves = Append(@, next_move)]))

\* make_move without the early return on a finished game.
make_move_on_finished_game(g, next_move) ==
    PushNext(g, next_move, perform_move(g.boards[Len(g.boards)], next_move))

\* Game::make_move: the game afterwards and the returned Option<&Board>.
make_move(g, next_move) ==
    IF g.board_state \in {"Draw", "Stalemate", "Checkmate"}
    THEN [game |-> g, value |-> NoBoard]
    ELSE PushNext(g, next_move, perform_move(g.boards[Len(g.boards)], next_move))

\* Option<(Board, Move)>.
NoPair == [some |-> FALSE]

SomePair(b, m) == [some |-> TRUE, board |-> b, move |-> m]

\* undo_move popping the board first and the move only after it.
undo_move_pops_board_first(g) ==
    IF g.moves = <<>>
    THEN [game |-> [g EXCEPT !.boards = SubSeq(@, 1, Len(@) - 1)], value |-> NoPair]
    ELSE [game |-> [g EXCEPT !.moves = SubSeq(@, 1, Len(@) - 1),
                             !.boards = SubSeq(@, 1, Len(@) - 1)],
          value |-> SomePair(g.boards[Len(g.boards)], g.moves[Len(g.moves)])]

\* Game::undo_move: moves.pop(), and boards.pop() only when a move was popped.
undo_move(g) ==
    IF g.moves = <<>>
    THEN [game |-> g, value |-> NoPair]
    ELSE [game |-> [g EXCEPT !.moves = SubSeq(@, 1, Len(@) - 1),
                             !.boards = SubSeq(@, 1, Len(@) - 1)],
          value |-> SomePair(g.boards[Len(g.boards)], g.moves[Len(g.moves)])]

(***************************************************************************)
(* The caller.  A Game is created by Game::new and then driven through     *)
(* make_move and undo_move.  The moves the caller submits at each ply come *)
(* from a repertoire chosen when the game starts.                          *)
(***************************************************************************)
\* The most moves played in a game of the opening repertoire.
MaxOpenPlies == 5

\* The most moves played in a game that follows one of the long lines.
MaxLinePlies == 53

\* Squares by file letter and rank digit: Sq(5, 2) is e2.
Sq(file, rank) == SquareSpec(rank - 1, file - 1)

Mv(f1, r1, f2, r2) == Normal(Sq(f1, r1), Sq(f2, r2))

\* Opening repertoire by ply: the fool's mate 1.f3 e5 2.g4 Qh4#, the check
\* 1.e4 f5 2.Qh5+ g6, a castling move and a move of a black pawn on White's
\* turn.
OpenBook(n) ==
    CASE n % 4 = 0 -> {Mv(6, 2, 6, 3), Mv(5, 2, 5, 4), Castling(Short), Mv(5, 7, 5, 5)}
      [] n % 4 = 1 -> {Mv(5, 7, 5, 5), Mv(6, 7, 6, 5)}
      [] n % 4 = 2 -> {Mv(7, 2, 7, 4), Mv(4, 1, 8, 5)}
      [] n % 4 = 3 -> {Mv(4, 8, 8, 4), Mv(7, 7, 7, 6)}

\* 1.d3 c6, then the king's knights go out and home in turn.  The 52nd move
\* brings the halfmove clock to 50; there Black may also play Qa5+.
DrawBook(n) ==
    CASE n = 0 -> {Mv(4, 2, 4, 3)}
      [] n = 1 -> {Mv(3, 7, 3, 6)}
      [] n > 1 /\ n % 2 = 0 -> {Mv(7, 1, 6, 3), Mv(6, 3, 7, 1)}
      [] n > 1 /\ n % 2 = 1 ->
           {Mv(7, 8, 6, 6), Mv(6, 6, 7, 8)}
           \cup (IF n > DRAW_HALFMOVE THEN {Mv(4, 8, 1, 5)} ELSE {})

\* Sam Loyd's stalemate in ten moves: 1.e3 a5 2.Qh5 Ra6 3.Qxa5 h5 4.h4 Rah6
\* 5.Qxc7 f6 6.Qxd7+ Kf7 7.Qxb7 Qd3 8.Qxb8 Qh7 9.Qxc8 Kg6 10.Qe6.
LoydLine ==
    << Mv(5, 2, 5, 3), Mv(1, 7, 1, 5), Mv(4, 1, 8, 5), Mv(1, 8, 1, 6),
       Mv(8, 5, 1, 5), Mv(8, 7, 8, 5), Mv(8, 2, 8, 4), Mv(1, 6, 8, 6),
       Mv(1, 5, 3, 7), Mv(6, 7, 6, 6), Mv(3, 7, 4, 7), Mv(5, 8, 6, 7),
       Mv(4, 7, 2, 7), Mv(4, 8, 4, 3), Mv(2, 7, 2, 8), Mv(4, 3, 8, 7),
       Mv(2, 8, 3, 8), Mv(6, 7, 7, 6), Mv(3, 8, 5, 6) >>

LoydBook(n) == {LoydLine[(n % Len(LoydLine)) + 1]}

Books == {"Open", "Draw", "Loyd"}

\* 1.e4 and then a6 or e5; 2.e5 d5, and the pawn on e5 takes on d6 or goes on.
PassantLine ==
    << {Mv(5, 2, 5, 4)}, {Mv(1, 7, 1, 6), Mv(5, 7, 5, 5)}, {Mv(5, 4, 5, 5)},
       {Mv(4, 7, 4, 5)}, {Mv(5, 5, 4, 6), Mv(5, 5, 5, 6)} >>

\* 1.a4 h5 2.Ra3 (or a5) Rh6 3.Rh3 Rg6 4.Rh4: rooks leave their corners, and
\* the queen's rook moves on the h-file.
RookLine ==
    << {Mv(1, 2, 1, 4)}, {Mv(8, 7, 8, 5)}, {Mv(1, 1, 1, 3), Mv(1, 4, 1, 5)},
       {Mv(8, 8, 8, 6)}, {Mv(1, 3, 8, 3)}, {Mv(8, 6, 7, 6)}, {Mv(8, 3, 8, 4)} >>

\* 1.e4 e5 2.Nf3 Nc6 3.Bc4 Bc5 4.O-O (or O-O-O) Nf6 (or O-O) 5.Bxf7+.
CastleLine ==
    << {Mv(5, 2, 5, 4)}, {Mv(5, 7, 5, 5)}, {Mv(7, 1, 6, 3)}, {Mv(2, 8, 3, 6)},
       {Mv(6, 1, 3, 4)}, {Mv(6, 8, 3, 5)}, {Castling(Short), Castling(Long)},
       {Mv(7, 8, 6, 6), Castling(Short)}, {Mv(3, 4, 6, 7)} >>

\* 1.h4 g5 2.hxg5 h6 3.gxh6 Nf6 4.h7 Rg8 5.h8 promoting, or 5.hxg8.
PromotionLine ==
    << {Mv(8, 2, 8, 4)}, {Mv(7, 7, 7, 5)}, {Mv(8, 4, 7, 5)}, {Mv(8, 7, 8, 6)},
       {Mv(7, 5, 8, 6)}, {Mv(7, 8, 6, 6)}, {Mv(8, 6, 8, 7)}, {Mv(8, 8, 7, 8)},
       {Promotion(Sq(8, 7), Sq(8, 8), "Queen"), Promotion(Sq(8, 7), Sq(8, 8), "Knight"),
        Mv(8, 7, 8, 8), Mv(8, 7, 7, 8), Promotion(Sq(8, 7), Sq(7, 8), "Queen")} >>

\* 1.e4 f5 2.Qh5+, and then the queen goes on to e8 or Black answers g6;
\* then 3.d4 and Black castles short.
KingLine ==
    << {Mv(5, 2, 5, 4)}, {Mv(6, 7, 6, 5)}, {Mv(4, 1, 8, 5)}, {Mv(8, 5, 5, 8), Mv(7, 7, 7, 6)},
       {Mv(4, 2, 4, 4)}, {Castling(Short)} >>

Lines == {"Passant", "Rook", "Castle", "Promotion", "King"}

LineOf(name) ==
    CASE name = "Passant" -> PassantLine
      [] name = "Rook" -> RookLine
      [] name = "Castle" -> CastleLine
      [] name = "Promotion" -> PromotionLine
      [] name = "King" -> KingLine

\* The moves of a line at a ply; none once the line has ended.
LineBook(name, n) == IF n < Len(LineOf(name)) THEN LineOf(name)[n + 1] ELSE {}

VARIABLES boards, moves, board_state, book, ret

vars == <<boards, moves, board_state, book, ret>>

\* The Game value held in the variables.
game == [boards |-> boards, moves |-> moves, board_state |-> board_state]

\* The moves the caller may submit now.
Offered ==
    CASE book = "Open" -> IF Len(moves) < MaxOpenPlies THEN OpenBook(Len(moves)) ELSE {}
      [] book = "Draw" -> IF Len(moves) < MaxLinePlies THEN DrawBook(Len(moves)) ELSE {}
      [] book = "Loyd" -> IF Len(moves) < MaxLinePlies THEN LoydBook(Len(moves)) ELSE {}
      [] book \in Lines -> LineBook(book, Len(moves))

NoMove == [kind |-> "None"]

Init ==
    /\ boards = new.boards
    /\ moves = new.moves
    /\ board_state = new.board_state
    /\ book \in Books
    /\ ret = [op |-> "new", arg |-> NoMove, value |-> NoPair]

\* The effect of make_move(m) returning r on the variables: the game it
\* leaves and the record of the call with its argument and its return value.
MakeMoveReturns(m, r) ==
    /\ boards' = r.game.boards
    /\ moves' = r.game.moves
    /\ board_state' = r.game.board_state
    /\ ret' = [op |-> "make_move", arg |-> m, value |-> r.value]
    /\ UNCHANGED book

\* A call of Game::make_move.
MakeMove == \E m \in Offered : MakeMoveReturns(m, make_move(game, m))

\* A call of Game::undo_move.
UndoMove ==
    LET r == undo_move(game)
    IN  /\ boards' = r.game.boards
        /\ moves' = r.game.moves
        /\ board_state' = r.game.board_state
        /\ ret' = [op |-> "undo_move", arg |-> NoMove, value |-> r.value]
        /\ UNCHANGED book

Next == MakeMove \/ UndoMove

Spec == Init /\ [][Next]_vars

\* A game that follows one of the short lines.
LinesInit ==
    /\ boards = new.boards
    /\ moves = new.moves
    /\ board_state = new.board_state
    /\ book \in Lines
    /\ ret = [op |-> "new", arg |-> NoMove, value |-> NoPair]

\* The process has panicked in make_move.
PanickedInMakeMove == [some |-> FALSE, panicked |-> TRUE]

Running == ret.value # PanickedInMakeMove

\* A call of Game::make_move in a build with debug assertions that panics in
\* perform_move; nothing was pushed, and the process has ended.
MakeMovePanics ==
    /\ Running
    /\ board_state \notin {"Draw", "Stalemate", "Checkmate"}
    /\ \E m \in Offered :
          /\ perform_move_panics(current_board(game), m)
          /\ ret' = [op |-> "make_move", arg |-> m, value |-> PanickedInMakeMove]
    /\ UNCHANGED <<boards, moves, board_state, book>>

\* The calls of make_move and undo_move of a process that has not panicked.
MakeMoveRunning == Running /\ MakeMove

UndoMoveRunning == Running /\ UndoMove

LinesNext == MakeMoveRunning \/ UndoMoveRunning \/ MakeMovePanics

ShortGames == LinesInit /\ [][LinesNext]_vars

(***************************************************************************)
(* A caller of the Board alone: a board is loaded from FEN, its legal      *)
(* moves are asked for, and then one of the returned moves is performed or *)
(* its squares are read.                                                   *)
(***************************************************************************)
\* The start position.
\*   rnbqkbnr/pppppppp/8/8/8/8/PPPPPPPP/RNBQKBNR w KQkq - 0 1
FEN_DEFAULT ==
    <<"r", "n", "b", "q", "k", "b", "n", "r", "/", "p", "p", "p", "p", "p",
      "p", "p", "p", "/", "8", "/", "8", "/", "8", "/", "8", "/", "P", "P",
      "P", "P", "P", "P", "P", "P", "/", "R", "N", "B", "Q", "K", "B", "N",
      "R", " ", "w", " ", "K", "Q", "k", "q", " ", "-", " ", "0", " ", "1">>

\* Test castling: both castling moves are there.
\*   8/8/8/8/8/8/3PPP2/R3K2R w KQ - 0 1
FEN_CASTLING ==
    <<"8", "/", "8", "/", "8", "/", "8", "/", "8", "/", "8", "/", "3", "P",
      "P", "P", "2", "/", "R", "3", "K", "2", "R", " ", "w", " ", "K", "Q",
      " ", "-", " ", "0", " ", "1">>

\* Test castling_blocked_intermediate: a rook attacks f1.
\*   8/8/8/5r2/8/8/8/4K2R w K - 0 1
FEN_BLOCKED_INTERMEDIATE ==
    <<"8", "/", "8", "/", "8", "/", "5", "r", "2", "/", "8", "/", "8", "/",
      "8", "/", "4", "K", "2", "R", " ", "w", " ", "K", " ", "-", " ", "0",
      " ", "1">>

\* Test castling_while_in_check: a rook attacks e1.
\*   8/8/8/4r3/8/8/8/4K2R w K - 0 1
FEN_WHILE_IN_CHECK ==
    <<"8", "/", "8", "/", "8", "/", "4", "r", "3", "/", "8", "/", "8", "/",
      "8", "/", "4", "K", "2", "R", " ", "w", " ", "K", " ", "-", " ", "0",
      " ", "1">>

\* Test cant_move_pinned_piece.
\*   8/8/8/8/8/r7/R7/K7 w - - 0 1
FEN_PINNED ==
    <<"8", "/", "8", "/", "8", "/", "8", "/", "8", "/", "r", "7", "/", "R",
      "7", "/", "K", "7", " ", "w", " ", "-", " ", "-", " ", "0", " ", "1">>

\* Black to move with both kings and all four rooks at home.
\*   r3k2r/8/8/8/8/8/8/R3K2R b KQkq - 0 1
FEN_BLACK_CASTLING ==
    <<"r", "3", "k", "2", "r", "/", "8", "/", "8", "/", "8", "/", "8", "/",
      "8", "/", "8", "/", "R", "3", "K", "2", "R", " ", "b", " ", "K", "Q",
      "k", "q", " ", "-", " ", "0", " ", "1">>

\* A black pawn on g2 beside the square f1 that the white king crosses.
\*   4k3/8/8/8/8/8/6p1/4K2R w K - 0 1
FEN_PAWN_G2 ==
    <<"4", "k", "3", "/", "8", "/", "8", "/", "8", "/", "8", "/", "8", "/",
      "6", "p", "1", "/", "4", "K", "2", "R", " ", "w", " ", "K", " ", "-",
      " ", "0", " ", "1">>

\* After 1.e4 a6 2.e5 d5: the pawn on e5 may take on d6.
\*   rnbqkbnr/1pp1pppp/p7/3pP3/8/8/PPPP1PPP/RNBQKBNR w KQkq d6 0 3
FEN_EN_PASSANT ==
    <<"r", "n", "b", "q", "k", "b", "n", "r", "/", "1", "p", "p", "1", "p",
      "p", "p", "p", "/", "p", "7", "/", "3", "p", "P", "3", "/", "8", "/",
      "8", "/", "P", "P", "P", "P", "1", "P", "P", "P", "/", "R", "N", "B",
      "Q", "K", "B", "N", "R", " ", "w", " ", "K", "Q", "k", "q", " ", "d",
      "6", " ", "0", " ", "3">>

\* The en passant square d6 with a white pawn on d7 between the bishop on e6
\* and the white king on c8.
\*   2K5/3P4/4b3/3pP3/8/8/8/7k w - d6 0 1
FEN_EN_PASSANT_D7 ==
    <<"2", "K", "5", "/", "3", "P", "4", "/", "4", "b", "3", "/", "3", "p",
      "P", "3", "/", "8", "/", "8", "/", "8", "/", "7", "k", " ", "w", " ",
      "-", " ", "d", "6", " ", "0", " ", "1">>

\* Test get_move_directions_can_capture: a rook among four black pawns.
\*   8/8/8/3p4/2pRp3/3p4/8/8 w - - 0 1
FEN_CAN_CAPTURE ==
    <<"8", "/", "8", "/", "8", "/", "3", "p", "4", "/", "2", "p", "R",
      "p", "3", "/", "3", "p", "4", "/", "8", "/", "8", " ", "w", " ",
      "-", " ", "-", " ", "0", " ", "1">>

\* Test get_move_directions_capture_and_empty: a bishop with a pawn on its diagonal.
\*   8/8/3p4/8/8/B7/8/8 w - - 0 1
FEN_CAPTURE_AND_EMPTY ==
    <<"8", "/", "8", "/", "3", "p", "4", "/", "8", "/", "8", "/", "B",
      "7", "/", "8", "/", "8", " ", "w", " ", "-", " ", "-", " ", "0",
      " ", "1">>

\* Test queen: a queen alone on b2.
\*   8/8/8/8/8/8/1Q6/8 w - - 0 1
FEN_QUEEN ==
    <<"8", "/", "8", "/", "8", "/", "8", "/", "8", "/", "8", "/", "1",
      "Q", "6", "/", "8", " ", "w", " ", "-", " ", "-", " ", "0", " ",
      "1">>

\* Test pawn_two_steps: a pawn on its home rank.
\*   8/8/8/8/8/8/3P4/8 w - - 0 1
FEN_PAWN_TWO_STEPS ==
    <<"8", "/", "8", "/", "8", "/", "8", "/", "8", "/", "8", "/", "3",
      "P", "4", "/", "8", " ", "w", " ", "-", " ", "-", " ", "0", " ",
      "1">>

\* Test pawn_two_blocked: the second square is occupied.
\*   8/8/8/8/3p4/8/3P4/8 w - - 0 1
FEN_PAWN_TWO_BLOCKED ==
    <<"8", "/", "8", "/", "8", "/", "8", "/", "3", "p", "4", "/", "8",
      "/", "3", "P", "4", "/", "8", " ", "w", " ", "-", " ", "-", " ",
      "0", " ", "1">>

\* Test pawn_promotion: a pawn one step from the far rank.
\*   8/4P3/8/8/8/8/8/8 w - - 0 1
FEN_PAWN_PROMOTION ==
    <<"8", "/", "4", "P", "3", "/", "8", "/", "8", "/", "8", "/", "8",
      "/", "8", "/", "8", " ", "w", " ", "-", " ", "-", " ", "0", " ",
      "1">>

\* Test pawn_take: a blocked pawn with a black pawn on either diagonal.
\*   8/8/4ppp1/5P2/8/8/8/8 w - - 0 1
FEN_PAWN_TAKE ==
    <<"8", "/", "8", "/", "4", "p", "p", "p", "1", "/", "5", "P", "2",
      "/", "8", "/", "8", "/", "8", "/", "8", " ", "w", " ", "-", " ",
      "-", " ", "0", " ", "1">>

\* Test pawn_all_at_once: a step, a capture and the en passant square.
\*   8/8/4p3/5Pp1/8/8/8/8 w - g6 0 1
FEN_PAWN_ALL_AT_ONCE ==
    <<"8", "/", "8", "/", "4", "p", "3", "/", "5", "P", "p", "1", "/",
      "8", "/", "8", "/", "8", "/", "8", " ", "w", " ", "-", " ", "g",
      "6", " ", "0", " ", "1">>

\* A black pawn on a2 with a1 empty and a white knight on b1.
\*   4k3/8/8/8/8/8/p7/1N2K3 b - - 0 1
FEN_PAWN_A2 ==
    <<"4", "k", "3", "/", "8", "/", "8", "/", "8", "/", "8", "/", "8",
      "/", "p", "7", "/", "1", "N", "2", "K", "3", " ", "b", " ", "-",
      " ", "-", " ", "0", " ", "1">>

\* A white pawn on e7 blocked by the black king, with a black rook on d8.
\*   3rk3/4P3/8/8/8/8/8/4K3 w - - 0 1
FEN_PAWN_E7 ==
    <<"3", "r", "k", "3", "/", "4", "P", "3", "/", "8", "/", "8", "/",
      "8", "/", "8", "/", "8", "/", "4", "K", "3", " ", "w", " ", "-",
      " ", "-", " ", "0", " ", "1">>

Fens ==
    {FEN_DEFAULT,
     FEN_CASTLING,
     FEN_BLOCKED_INTERMEDIATE,
     FEN_WHILE_IN_CHECK,
     FEN_PINNED,
     FEN_BLACK_CASTLING,
     FEN_PAWN_G2,
     FEN_EN_PASSANT,
     FEN_EN_PASSANT_D7,
     FEN_CAN_CAPTURE,
     FEN_CAPTURE_AND_EMPTY,
     FEN_QUEEN,
     FEN_PAWN_TWO_STEPS,
     FEN_PAWN_TWO_BLOCKED,
     FEN_PAWN_PROMOTION,
     FEN_PAWN_TAKE,
     FEN_PAWN_ALL_AT_ONCE,
     FEN_PAWN_A2,
     FEN_PAWN_E7}

\* The loaded board.
loaded == boards[1]

PosInit ==
    /\ \E t \in Fens : boards = <<load_fen(t).value>>
    /\ moves = <<>>
    /\ board_state = "Normal"
    /\ book = "Fen"
    /\ ret = [op |-> "load_fen", arg |-> NoMove, value |-> NoPair]

\* A call of Board::get_legal_moves on the loaded board.
GetLegalMoves ==
    /\ ret.op = "load_fen"
    /\ \E sq \in Squares :
          ret' = [op |-> "get_legal_moves", arg |-> sq,
                  value |-> get_legal_moves(loaded, sq)]
    /\ UNCHANGED <<boards, moves, board_state, book>>

\* A call of Board::get_all_legal_moves on the loaded board.
GetAllLegalMoves ==
    /\ ret.op = "load_fen"
    /\ ret' = [op |-> "get_all_legal_moves", arg |-> NoMove,
               value |-> get_all_legal_moves(loaded)]
    /\ UNCHANGED <<boards, moves, board_state, book>>

\* A call of enumerate_legal_moves for a piece of the loaded board, of either
\* colour, with the check filter on or off.
EnumerateLegalMoves ==
    /\ ret.op = "load_fen"
    /\ \E location \in Squares, account_for_check \in BOOLEAN :
          /\ Index(loaded, location) # NoPiece
          /\ ret' = [op |-> "enumerate_legal_moves",
                     arg |-> [location |-> location,
                              account_for_check |-> account_for_check],
                     value |-> enumerate_legal_moves(Index(loaded, location), location,
                                                     loaded, account_for_check)]
    /\ UNCHANGED <<boards, moves, board_state, book>>

\* The moves that the last call returned.
Returned ==
    IF ret.op \in {"get_legal_moves", "get_all_legal_moves"} THEN ret.value ELSE {}

\* The returned promotions with the target changed to a pawn or a king.
Retargeted ==
    {Promotion(m.from, m.to, target) :
       m \in {x \in Returned : x.kind = "Promotion"}, target \in {"Pawn", "King"}}

\* A call of Board::perform_move with one of the returned moves, or with a
\* returned promotion whose target was changed.
PerformMove ==
    /\ \E m \in Returned \cup Retargeted :
          ret' = [op |-> "perform_move", arg |-> m, value |-> perform_move(loaded, m)]
    /\ UNCHANGED <<boards, moves, board_state, book>>

\* Calls of Move::from and Move::to on one of the returned moves.
MoveFromTo ==
    /\ \E m \in Returned, color \in Color :
          ret' = [op |-> "from_to", arg |-> [move |-> m, color |-> color],
                  value |-> [from |-> Move_from(m, color), to |-> Move_to(m, color)]]
    /\ UNCHANGED <<boards, moves, board_state, book>>

PosNext ==
    \/ GetLegalMoves
    \/ GetAllLegalMoves
    \/ EnumerateLegalMoves
    \/ PerformMove
    \/ MoveFromTo

Positions == PosInit /\ [][PosNext]_vars

(***************************************************************************)
(* A caller of SquareSpec::checked_add alone: a square of the board, a     *)
(* delta with small components or components near the ends of i32, and a   *)
(* build with or without overflow checks.                                  *)
(***************************************************************************)
MaxDelta == 8

Deltas ==
    (0 - MaxDelta .. MaxDelta)
    \cup {I32_MAX - k : k \in 0 .. MaxDelta}
    \cup {I32_MIN + k : k \in 0 .. 1}

ArithInit ==
    /\ boards = <<>>
    /\ moves = <<>>
    /\ board_state = "Normal"
    /\ book = "Squares"
    /\ ret = [op |-> "new", arg |-> NoMove, value |-> NoPair]

\* A call of SquareSpec::checked_add.
CheckedAdd ==
    /\ ret.op = "new"
    /\ \E rank \in 0 .. 7, file \in 0 .. 7, d_rank \in Deltas, d_file \in Deltas,
          overflow_checks \in BOOLEAN :
          ret' = [op |-> "checked_add",
                  arg |-> [sq |-> SquareSpec(rank, file),
                           rhs |-> SquareDiff(d_rank, d_file),
                           overflow_checks |-> overflow_checks],
                  value |-> checked_add_i32(SquareSpec(rank, file),
                                            SquareDiff(d_rank, d_file), overflow_checks)]
    /\ UNCHANGED <<boards, moves, board_state, book>>

SquareArithmetic == ArithInit /\ [][CheckedAdd]_vars

(***************************************************************************)
(* Properties                                                              *)
(***************************************************************************)
Terminal == {"Draw", "Stalemate", "Checkmate"}

\* The last call was a make_move that returned a board.
Accepted == ret.op = "make_move" /\ ret.value.some

\* The last call was a make_move that returned None.
Rejected == ret.op = "make_move" /\ ~ret.value.some

\* C1: when make_move returns None, the boards, the moves (and so the
\* current position) and the board state are what they were before the call.
C1_RejectionLeavesGame ==
    [][(ret'.op = "make_move" /\ ~ret'.value.some)
          => (boards' = boards /\ moves' = moves /\ board_state' = board_state)]_vars

\* An illegal move was rejected in the middle of a game that is not over.
C1_Witness ==
    Rejected /\ Len(moves) > 0 /\ board_state \notin Terminal

\* C2: every accepted Normal or Promotion move moved a piece of the side
\* whose turn it was on the board it was played on.
C2_MovedPieceOfSideToMove ==
    \A i \in 1 .. Len(moves) :
       moves[i].kind \in {"Normal", "Promotion"}
          => Index(boards[i], moves[i].from).color = boards[i].turn

\* C3: every accepted Castling move was one of the legal moves of the board
\* it was played on.
C3_AcceptedCastlingIsLegal ==
    \A i \in 1 .. Len(moves) :
       moves[i].kind = "Castling" => moves[i] \in get_all_legal_moves(boards[i])

\* C4: in a terminal board state every call of make_move returns None and
\* leaves the histories and the board state as they are, so the state stays
\* terminal for the next call.
C4_TerminalRejectsAll ==
    [][(board_state \in Terminal /\ ret'.op = "make_move")
          => (/\ ~ret'.value.some
              /\ boards' = boards
              /\ moves' = moves
              /\ board_state' = board_state)]_vars

\* A move was submitted and rejected on a stalemated game.
C4_Witness ==
    /\ Rejected
    /\ board_state = "Stalemate"
    /\ get_all_legal_moves(current_board(game)) = {}

\* C5: after an accepted move the board state is Check exactly when the new
\* position has a legal move and its side to move is in check, and is Normal
\* when it has a legal move, no check and a halfmove clock other than 50.
C5_StateRecomputed ==
    Accepted =>
       LET P == current_board(game)
           can_move == get_all_legal_moves(P) # {}
       IN  /\ board_state = "Check" <=> (can_move /\ in_check(P))
           /\ (can_move /\ ~in_check(P) /\ P.halfmove # DRAW_HALFMOVE)
                 => board_state = "Normal"

\* The squares strictly between two squares of one rank, file or diagonal.
Between(a, b) ==
    LET d == SquareSub(b, a)
        n == IF IntAbs(d.d_rank) > IntAbs(d.d_file) THEN IntAbs(d.d_rank) ELSE IntAbs(d.d_file)
    IN  {SquareSpec(a.rank + (d.d_rank \div n) * i, a.file + (d.d_file \div n) * i) :
           i \in 1 .. (n - 1)}

\* The rules of chess: the piece on square s attacks the square t.
Attacks(b, s, t) ==
    LET p == Index(b, s)
        d == SquareSub(t, s)
        ar == IntAbs(d.d_rank)
        af == IntAbs(d.d_file)
        clear == \A x \in Between(s, t) : Index(b, x) = NoPiece
    IN  /\ s # t
        /\ CASE p.piece = "Pawn" ->
                  af = 1 /\ d.d_rank = (IF p.color = "White" THEN 1 ELSE -1)
             [] p.piece = "Knight" -> {ar, af} = {1, 2}
             [] p.piece = "King" -> ar <= 1 /\ af <= 1
             [] p.piece = "Rook" -> (ar = 0 \/ af = 0) /\ clear
             [] p.piece = "Bishop" -> ar = af /\ clear
             [] p.piece = "Queen" -> (ar = 0 \/ af = 0 \/ ar = af) /\ clear
             [] OTHER -> FALSE

\* The rules of chess: the king of the side to move is attacked.
KingAttacked(b) ==
    \E t \in Squares :
       /\ Index(b, t) = Piece("King", b.turn)
       /\ \E s \in Squares : Index(b, s).color = opposite(b.turn) /\ Attacks(b, s, t)

\* C6: after an accepted move the board state is Checkmate exactly when the
\* side to move has no legal move and its king is attacked, and Stalemate
\* exactly when it has no legal move and its king is not attacked.
C6_MateAndStalemate ==
    Accepted =>
       LET P == current_board(game)
           no_move == get_all_legal_moves(P) = {}
       IN  /\ board_state = "Checkmate" <=> (no_move /\ KingAttacked(P))
           /\ board_state = "Stalemate" <=> (no_move /\ ~KingAttacked(P))

\* A move was accepted that mates the side to move.
C6_Witness ==
    Accepted /\ board_state = "Checkmate" /\ KingAttacked(current_board(game))

\* C7: after an accepted move onto a position whose halfmove clock is 50 the
\* board state is Draw.
C7_FiftyIsDraw ==
    (Accepted /\ current_board(game).halfmove = DRAW_HALFMOVE)
       => board_state = "Draw"

\* C8: there is always a first board, it is the default board, and there is
\* one move fewer than boards; an accepted make_move appends the returned
\* board and the move, a successful undo_move removes the last of each.
C8_Histories ==
    /\ [](/\ Len(boards) >= 1
          /\ boards[1] = default_board
          /\ Len(moves) = Len(boards) - 1)
    /\ [][/\ (ret'.op = "make_move" /\ ret'.value.some)
               => (/\ boards' = Append(boards, ret'.value.board)
                   /\ moves' = Append(moves, ret'.arg))
          /\ (ret'.op = "undo_move" /\ ret'.value.some)
               => (/\ boards = Append(boards', ret'.value.board)
                   /\ moves = Append(moves', ret'.value.move))]_vars

\* A move was undone and moves remain.
C8_Witness ==
    ret.op = "undo_move" /\ ret.value.some /\ Len(moves) > 0

\* C9: undo_move on a game without moves returns None and changes neither
\* the boards (the default board stays first) nor the board state.
C9_UndoOfNothing ==
    [][(ret'.op = "undo_move" /\ moves = <<>>)
          => (/\ ~ret'.value.some
              /\ boards' = boards
              /\ boards'[1] = default_board
              /\ moves' = moves
              /\ board_state' = board_state)]_vars

\* Every move of a game was undone, and then undo_move was called once more.
C9_Witness ==
    /\ ret.op = "undo_move"
    /\ ~ret.value.some
    /\ moves = <<>>
    /\ board_state # "Normal"

\* C10: make_move with the move that undo_move has just returned is accepted
\* and puts back the board and the move that were removed.
C10_UndoThenReplay ==
    [][(/\ ret.op = "undo_move"
        /\ ret.value.some
        /\ ret'.op = "make_move"
        /\ ret'.arg = ret.value.move)
          => (/\ ret'.value.some
              /\ boards' = Append(boards, ret.value.board)
              /\ moves' = Append(moves, ret.value.move))]_vars

\* C11: get_legal_moves returns no move for a square that holds no piece and
\* for a square that holds a piece of the side that is not to move.
C11_NoMovesOffTurn ==
    ret.op = "get_legal_moves"
       => ((Index(loaded, ret.arg) = NoPiece \/ Index(loaded, ret.arg).color # loaded.turn)
              => ret.value = {})

\* The moves of a piece of the side not to move were asked for, a piece that
\* could move if the turn were not looked at.
C11_Witness ==
    /\ ret.op = "get_legal_moves"
    /\ Index(loaded, ret.arg) # NoPiece
    /\ Index(loaded, ret.arg).color # loaded.turn
    /\ ret.value = {}
    /\ enumerate_legal_moves(Index(loaded, ret.arg), ret.arg, loaded, TRUE) # {}

\* The rules of chess: a piece of the given colour attacks the square t.
AttackedBy(b, color, t) ==
    \E s \in Squares : Index(b, s).color = color /\ Attacks(b, s, t)

\* The castling right of a colour and a side.
RightOf(color, side) ==
    IF color = "White"
    THEN (IF side = Short THEN WHITE_SHORT ELSE WHITE_LONG)
    ELSE (IF side = Short THEN BLACK_SHORT ELSE BLACK_LONG)

\* The rook's corner of a colour and a side.
CornerOf(color, side) == SquareSpec(home_rank(color), IF side = Short THEN 7 ELSE 0)

\* The conditions under which the king on square k may be offered to castle.
MayCastle(b, k, side) ==
    LET color == Index(b, k).color
        crossed == SquareSpec(k.rank, IF side = Short THEN k.file + 1 ELSE k.file - 1)
    IN  /\ RightOf(color, side) \in b.castling
        /\ \A x \in Between(k, CornerOf(color, side)) : Index(b, x) = NoPiece
        /\ ~AttackedBy(b, opposite(color), k)
        /\ ~AttackedBy(b, opposite(color), crossed)

\* C13: a castling move is among the legal moves of a king only if the right
\* is set, the squares between the king and the rook are empty, and neither
\* the king's square nor the square it crosses is attacked by an enemy piece.
C13_CastlingOffered ==
    \A side \in {Short, Long} :
       (ret.op = "get_legal_moves" /\ Castling(side) \in ret.value)
          => MayCastle(loaded, ret.arg, side)

C20_FromAndTo ==
    ret.op = "from_to"
       => IF ret.arg.move.kind = "Castling"
          THEN /\ ret.value.from = SquareSpec(home_rank(ret.arg.color), 4)
               /\ ret.value.to =
                    SquareSpec(home_rank(ret.arg.color),
                               IF ret.arg.move.side = Short THEN 6 ELSE 2)
          ELSE /\ ret.value.from = ret.arg.move.from
               /\ ret.value.to = ret.arg.move.to

\* C12: parsing the notation written for the current position gives the
\* position back, and the notation's castling field has each of the letters
\* K, Q, k, q exactly when the white short, white long, black short and
\* black long right is set.
C12_RoundTrip ==
    LET P == current_board(game)
        field == split(fmt_Board(P), " ")[3]
    IN  /\ load_fen(fmt_Board(P)) = Ok(P)
        /\ contains(field, "K") <=> WHITE_SHORT \in P.castling
        /\ contains(field, "Q") <=> WHITE_LONG \in P.castling
        /\ contains(field, "k") <=> BLACK_SHORT \in P.castling
        /\ contains(field, "q") <=> BLACK_LONG \in P.castling

\* The i-th accepted move was a move of a pawn.
PawnMoved(i) ==
    moves[i].kind \in {"Normal", "Promotion"} /\ Index(boards[i], moves[i].from).piece = "Pawn"

\* The i-th accepted move was a Normal pawn move onto the en passant target.
TookEnPassant(i) ==
    /\ moves[i].kind = "Normal"
    /\ PawnMoved(i)
    /\ boards[i].en_passant # NoSquare
    /\ moves[i].to = boards[i].en_passant

\* C15: after an accepted pawn move onto the en passant target, the enemy
\* pawn on the mover's starting rank and the destination file is gone, the
\* capturing pawn is on the destination, the origin is empty and every
\* other square is as before.
C15_EnPassantCapture ==
    \A i \in 1 .. Len(moves) :
       TookEnPassant(i) =>
          LET from == moves[i].from
              to == moves[i].to
              behind == SquareSpec(from.rank, to.file)
          IN  \A sq \in Squares :
                 Index(boards[i + 1], sq) =
                    (IF sq = to THEN Index(boards[i], from)
                     ELSE IF sq = from \/ sq = behind THEN NoPiece
                     ELSE Index(boards[i], sq))

\* C16: after every accepted move the en passant target is the square
\* passed over if the move was a pawn's advance of two ranks, and is absent
\* otherwise.
C16_EnPassantTarget ==
    \A i \in 1 .. Len(moves) :
       boards[i + 1].en_passant =
          (IF /\ moves[i].kind = "Normal"
              /\ PawnMoved(i)
              /\ moves[i].from.file = moves[i].to.file
              /\ IntAbs(moves[i].to.rank - moves[i].from.rank) = 2
           THEN SquareSpec((moves[i].from.rank + moves[i].to.rank) \div 2, moves[i].from.file)
           ELSE NoSquare)

\* C17: in every position of the game a castling right that is set has the
\* king of its colour on file e of the home rank and the rook of its colour
\* on the corner of its side.
C17_RightsNeedKingAndRook ==
    \A i \in 1 .. Len(boards) : \A color \in Color : \A side \in {Short, Long} :
       RightOf(color, side) \in boards[i].castling
          => /\ Index(boards[i], SquareSpec(home_rank(color), 4)) = Piece("King", color)
             /\ Index(boards[i], CornerOf(color, side)) = Piece("Rook", color)

\* The i-th accepted move took a piece.
Captured(i) ==
    \/ moves[i].kind \in {"Normal", "Promotion"} /\ Index(boards[i], moves[i].to) # NoPiece
    \/ TookEnPassant(i)

\* C18: after every accepted move the halfmove clock is 0 if a pawn moved
\* or a piece was taken, and is one more than before otherwise.
C18_HalfmoveClock ==
    \A i \in 1 .. Len(moves) :
       boards[i + 1].halfmove =
          (IF PawnMoved(i) \/ Captured(i) THEN 0 ELSE boards[i].halfmove + 1)

\* A castling move was accepted on a running clock, and a piece other than a
\* pawn has taken a piece.
C18_Witness ==
    /\ \E i \in 1 .. Len(moves) :
          moves[i].kind = "Castling" /\ boards[i + 1].halfmove = boards[i].halfmove + 1
             /\ boards[i].halfmove > 0
    /\ \E i \in 1 .. Len(moves) :
          ~PawnMoved(i) /\ Captured(i) /\ boards[i].halfmove > 0 /\ boards[i + 1].halfmove = 0

\* C19: every accepted move gives the turn to the other side, adds one to
\* the fullmove number if Black was to move and leaves it otherwise; the
\* positions of the history alternate in colour.
C19_TurnAndFullmove ==
    \A i \in 1 .. Len(moves) :
       /\ boards[i + 1].turn = opposite(boards[i].turn)
       /\ boards[i + 1].turn # boards[i].turn
       /\ boards[i + 1].fullmove =
             (IF boards[i].turn = "Black" THEN boards[i].fullmove + 1 ELSE boards[i].fullmove)

\* Both sides have moved twice and the fullmove number is 3.
C19_Witness ==
    /\ Accepted
    /\ Len(moves) = 4
    /\ boards[4].turn = "Black"
    /\ boards[5].turn = "White"
    /\ boards[4].fullmove = 2
    /\ boards[5].fullmove = 3

\* The last call was the generator without the check filter.
Unfiltered ==
    ret.op = "enumerate_legal_moves" /\ ~ret.arg.account_for_check

\* The piece the last generator call was made for.
Enumerated == Index(loaded, ret.arg.location)

\* C21: the destinations of a rook, bishop or queen without the check filter
\* are, along each of its directions, the empty squares up to the edge or the
\* first occupied square, and that occupied square if and only if its piece
\* is of the other colour; no square behind it.
C21_SlidingDestinations ==
    (Unfiltered /\ Enumerated.piece \in {"Rook", "Bishop", "Queen"})
    => ret.value =
         {Normal(ret.arg.location, t) :
            t \in {x \in Squares : /\ Attacks(loaded, ret.arg.location, x)
                                   /\ Index(loaded, x).color # Enumerated.color}}

\* A sliding piece that has both an empty destination and a capture, as the
\* bishop on a3 that takes the pawn on d6.
C21_Witness ==
    /\ Unfiltered
    /\ Enumerated.piece \in {"Rook", "Bishop", "Queen"}
    /\ \E m \in ret.value : Index(loaded, m.to) = NoPiece
    /\ \E m \in ret.value : Index(loaded, m.to) # NoPiece

\* The rank a pawn of that colour promotes on.
FarRank(color) == IF color = "White" THEN 7 ELSE 0

\* The square in front of a pawn of that colour.
Forward(color, s) == SquareSpec(s.rank + (IF color = "White" THEN 1 ELSE -1), s.file)

\* C22: a pawn whose forward square is empty and on the far rank gets, for
\* that square, exactly the four Promotion moves to knight, bishop, rook and
\* queen and no Normal move; an accepted Promotion leaves a piece of the
\* target kind and of the pawn's colour on `to` and leaves `from` empty; a
\* Promotion whose target is a pawn or a king is rejected.
C22_Promotion ==
    /\ (/\ Unfiltered
        /\ Enumerated.piece = "Pawn"
        /\ Forward(Enumerated.color, ret.arg.location) \in Squares
        /\ Forward(Enumerated.color, ret.arg.location).rank = FarRank(Enumerated.color)
        /\ Index(loaded, Forward(Enumerated.color, ret.arg.location)) = NoPiece)
       => {m \in ret.value : m.to = Forward(Enumerated.color, ret.arg.location)}
            = {Promotion(ret.arg.location, Forward(Enumerated.color, ret.arg.location), t) :
                 t \in {"Knight", "Bishop", "Rook", "Queen"}}
    /\ (ret.op = "perform_move" /\ ret.arg.kind = "Promotion")
       => IF ret.arg.target \in {"Pawn", "King"}
          THEN ret.value = NoBoard
          ELSE ret.value.some
               => /\ Index(ret.value.board, ret.arg.to)
                       = Piece(ret.arg.target, Index(loaded, ret.arg.from).color)
                  /\ Index(ret.value.board, ret.arg.from) = NoPiece

\* A promotion to a knight was accepted.
C22_Witness ==
    /\ ret.op = "perform_move"
    /\ ret.arg.kind = "Promotion"
    /\ ret.arg.target = "Knight"
    /\ ret.value.some
    /\ Index(ret.value.board, ret.arg.to).piece = "Knight"

\* The rank the pawns of that colour start on.
PawnHome(color) == IF color = "White" THEN 1 ELSE 6

\* The two squares diagonally in front of a pawn of that colour, as far as
\* they are on the board.
ForwardDiagonals(color, s) ==
    {SquareSpec(Forward(color, s).rank, f) : f \in {s.file - 1, s.file + 1}} \cap Squares

\* The destinations that the rule of C23 gives the pawn of that colour on s.
PawnDestinations(b, color, s) ==
    LET one == Forward(color, s)
        two == Forward(color, one)
    IN  {t \in {one} \cap Squares : Index(b, t) = NoPiece}
        \cup {t \in {two} \cap Squares :
                 /\ s.rank = PawnHome(color)
                 /\ Index(b, one) = NoPiece
                 /\ Index(b, t) = NoPiece}
        \cup {t \in ForwardDiagonals(color, s) :
                 \/ Index(b, t).color = opposite(color)
                 \/ t = b.en_passant}

\* C23: without the check filter a pawn that does not stand one step from
\* the far rank has as destinations exactly the square in front of it if
\* that is empty, the square two steps ahead if the pawn is on its home rank
\* and both squares are empty, and each square diagonally in front of it that
\* holds a piece of the other colour or is the en passant target.
C23_PawnDestinations ==
    (/\ Unfiltered
     /\ Enumerated.piece = "Pawn"
     /\ Forward(Enumerated.color, ret.arg.location).rank # FarRank(Enumerated.color))
    => ret.value =
         {Normal(ret.arg.location, t) :
            t \in PawnDestinations(loaded, Enumerated.color, ret.arg.location)}

\* A pawn with a step, a capture and the en passant target at once.
C23_Witness ==
    /\ Unfiltered
    /\ Enumerated.piece = "Pawn"
    /\ Forward(Enumerated.color, ret.arg.location).rank # FarRank(Enumerated.color)
    /\ Cardinality(ret.value) = 3
    /\ Normal(ret.arg.location, loaded.en_passant) \in ret.value
    /\ \E m \in ret.value : Index(loaded, m.to) # NoPiece

\* The i-th accepted move was a castling move.
Castled(i) == moves[i].kind = "Castling"

\* The file of the king after castling on that side, of the rook before and
\* of the rook after.
KingFileTo(side) == IF side = Short THEN 6 ELSE 2

RookFileFrom(side) == IF side = Short THEN 7 ELSE 0

RookFileTo(side) == IF side = Short THEN 5 ELSE 3

\* C24: an accepted castling move of colour c puts c's king on file 6
\* (short) or 2 (long) of c's home rank and c's rook on file 5 or 3, empties
\* the king's square on file 4 and the rook's corner, removes both rights of
\* c and leaves every other square and the rights of the other colour as
\* they were.
C24_CastlingEffect ==
    \A i \in 1 .. Len(moves) :
       Castled(i) =>
          LET c == boards[i].turn
              rank == IF c = "White" THEN 0 ELSE 7
              side == moves[i].side
          IN  /\ \A sq \in Squares :
                    Index(boards[i + 1], sq) =
                       (IF sq = SquareSpec(rank, KingFileTo(side)) THEN Piece("King", c)
                        ELSE IF sq = SquareSpec(rank, RookFileTo(side)) THEN Piece("Rook", c)
                        ELSE IF sq \in {SquareSpec(rank, 4), SquareSpec(rank, RookFileFrom(side))}
                          THEN NoPiece
                        ELSE Index(boards[i], sq))
              /\ boards[i + 1].castling = boards[i].castling \ ColorFlags(c)

\* The last call was the generator with the check filter on.
Filtered ==
    ret.op = "enumerate_legal_moves" /\ ret.arg.account_for_check

\* The deepest nesting of generator calls within the last generator call.
Nesting ==
    enumerate_legal_moves_nesting(Enumerated, ret.arg.location, loaded,
                                  ret.arg.account_for_check, 1)

\* C25: a call of the generator with the check filter off makes no further
\* call of the generator, and a call with the filter on makes only calls with
\* the filter off, so that the calls are nested at most two deep.
C25_NestingAtMostTwo ==
    /\ Unfiltered => Nesting = 1
    /\ Filtered => Nesting <= 2

\* A filtered call for a king that may castle: is_threatened and the filter
\* both call the generator again.
C25_Witness ==
    /\ Filtered
    /\ Enumerated.piece = "King"
    /\ Castling(Short) \in ret.value
    /\ Nesting = 2

\* The delta component d brings the coordinate c to a coordinate of the board.
StaysOnBoard(c, d) == d >= 0 - c /\ d <= 7 - c

\* C26: for a square of the board and any delta checked_add returns the
\* square with both sums as coordinates if both sums are in 0..7, and
\* returns no value otherwise.
C26_CheckedAdd ==
    ret.op = "checked_add"
    => ret.value =
         (IF /\ StaysOnBoard(ret.arg.sq.rank, ret.arg.rhs.d_rank)
             /\ StaysOnBoard(ret.arg.sq.file, ret.arg.rhs.d_file)
          THEN Returns(SquareSpec(ret.arg.sq.rank + ret.arg.rhs.d_rank,
                                  ret.arg.sq.file + ret.arg.rhs.d_file))
          ELSE Returns(NoSquare))

\* C27: whenever an accepted pawn move lands on the en passant target, the
\* condition that the debug assertion of perform_move tests holds on the
\* board before the move, and make_move never panics.
C27_EnPassantAssertion ==
    /\ \A i \in 1 .. Len(moves) :
          TookEnPassant(i) => en_passant_assertion(boards[i], moves[i])
    /\ Running

\* The squares of the board b that hold a king of that colour.
Kings(b, color) == {s \in Squares : Index(b, s) = Piece("King", color)}

\* C28: every board of the game has exactly one king of each colour, and no
\* accepted move has a king on its destination.
C28_OneKingEach ==
    /\ \A i \in 1 .. Len(boards) : \A color \in Color :
          Cardinality(Kings(boards[i], color)) = 1
    /\ \A i \in 1 .. Len(moves) :
          moves[i].kind \in {"Normal", "Promotion"}
             => Index(boards[i], moves[i].to).piece # "King"

\* C29: an accepted move that is no castling move, moves no king, moves no
\* rook away from a1, h1, a8 or h8 and takes nothing on these corners leaves
\* the four castling rights as they were.
C29_RightsKept ==
    \A i \in 1 .. Len(moves) :
       (/\ moves[i].kind \in {"Normal", "Promotion"}
        /\ Index(boards[i], moves[i].from).piece # "King"
        /\ ~(/\ Index(boards[i], moves[i].from).piece = "Rook"
              /\ moves[i].from \in {Sq(1, 1), Sq(8, 1), Sq(1, 8), Sq(8, 8)})
        /\ ~(/\ Index(boards[i], moves[i].to) # NoPiece
              /\ moves[i].to \in {Sq(1, 1), Sq(8, 1), Sq(1, 8), Sq(8, 8)}))
       => boards[i + 1].castling = boards[i].castling

\* C30: no board of the game has a pawn on rank 1 or on rank 8, and no
\* accepted Normal move takes a pawn onto its far rank.
C30_NoPawnOnFarRank ==
    /\ \A i \in 1 .. Len(boards) : \A s \in Squares :
          Index(boards[i], s).piece = "Pawn" => s.rank \notin {0, 7}
    /\ \A i \in 1 .. Len(moves) :
          (moves[i].kind = "Normal" /\ PawnMoved(i))
             => moves[i].to.rank # FarRank(Index(boards[i], moves[i].from).color)

====
